---------------------------- MODULE Spec2Model ----------------------------
(* A model of app.py: the Streamlit travel-planning script.                 *)
(*                                                                          *)
(* Every user interaction re-runs the whole script for the session that     *)
(* caused it: create_tables(), then the "Give me a plan!" handler when that *)
(* button was clicked, then the "Show Saved Trips" block when the checkbox  *)
(* is ticked, then the sidebar chat.  Sessions run their scripts in         *)
(* separate threads against one PostgreSQL store, so the model interleaves  *)
(* the sessions at the grain of the calls that leave the process: opening a *)
(* connection, executing a statement, committing, calling the generation    *)
(* service.                                                                 *)
(*                                                                          *)
(* Library behaviour the script relies on, modelled as documented:          *)
(*  - `with connection` (psycopg2) ends the TRANSACTION on exit (commit, or *)
(*    rollback when an exception passes through); it does not close the     *)
(*    connection.  A connection is closed when its last reference is        *)
(*    dropped: at return for a function's local `conn`, and only after the  *)
(*    script run for the module-level `conn` of the listing block.          *)
(*  - SERIAL draws the id from a sequence when the INSERT executes; a       *)
(*    rollback does not give the value back.                                *)
(*  - a row is placed in the relation when the INSERT executes and becomes  *)
(*    visible to other transactions when its transaction commits;           *)
(*    SELECT without ORDER BY scans the relation in placement order.        *)
EXTENDS Naturals, Sequences, FiniteSets

VARIABLES
    pc,            \* per session: position of the script run
    trigger,       \* per session: the button whose click caused the run
    showTrips,     \* per session: st.checkbox("Show Saved Trips")
    form,          \* per session: the five form widgets (lines 95-99)
    user_query,    \* per session: the sidebar text input
    reply,         \* per session: the local `reply` of the submit handler
    chat_history,  \* per session: st.session_state.chat_history, or Absent
    ui,            \* per session: the status elements rendered by the run
    listed,        \* per session: the rows rendered by "Show Saved Trips"
    fnConn,        \* per session: the local `conn` of create_tables/insert_trip
    scriptConn,    \* per session: the module-level `conn` of the listing block
    schema,        \* store: the relations that exist
    heap,          \* store: the trips relation, in placement order
    feedback,      \* store: the feedback relation
    nextId,        \* store: the sequence behind trips.id
    assigned,      \* history: every id the sequence ever handed out
    commitOrder,   \* history: the trips in the order their inserts committed
    answered,      \* history, per session: chat requests that completed
    garbage,       \* open connections no script references any more
    runs           \* number of script runs started

vars == <<pc, trigger, showTrips, form, user_query, reply, chat_history, ui,
          listed, fnConn, scriptConn, schema, heap,
          feedback, nextId, assigned, commitOrder, answered, garbage, runs>>

sessVars == <<trigger, showTrips, form, user_query, reply>>
storeVars == <<schema, heap, feedback, nextId, assigned, commitOrder>>

----------------------------------------------------------------------------
(* Bounds and input sets *)

MaxRuns == 2

Sessions == {"s1", "s2"}

Forms ==
    { [destination |-> "Tokyo", departure_date |-> "2025-05-01",
       return_date |-> "2025-05-10", activities |-> "hiking",
       accommodation |-> "Hotel"],
      [destination |-> "Paris", departure_date |-> "2025-06-09",
       return_date |-> "2025-06-02", activities |-> "",
       accommodation |-> "Hostel"] }

NoForm == [destination |-> "", departure_date |-> "", return_date |-> "",
           activities |-> "", accommodation |-> ""]

Queries == {"", "visa?", "weather?"}

Variants == {"A"}

Absent == "absent"
None == "none"
NoReply == [prompt |-> <<>>, text |-> ""]

Relations == {"trips", "feedback"}

----------------------------------------------------------------------------
(* Pure parts of the script *)

FullRequest(f) ==
    <<"Destination: ", f.destination, ", Departure Date: ", f.departure_date,
      ", Return Date: ", f.return_date, ", Activities: ", f.activities,
      ", Accommodation: ", f.accommodation>>

PromptTemplate(request) == <<"You are an expert at planning overseas trips.", request>>

ChatPrompt(q) == <<"Answer the user's travel query: ", q>>

GenerateContent(prompt, is_chat, v) ==
    IF is_chat THEN [prompt |-> ChatPrompt(prompt), text |-> v]
               ELSE [prompt |-> prompt, text |-> v]

ConnError == [kind |-> "error", msg |-> "Failed to connect to database"]
NoTrips == [kind |-> "error", msg |-> "No saved trips found."]
Saved == [kind |-> "success", msg |-> "Trip saved successfully!"]
Written == [kind |-> "write", msg |-> "reply"]
(* Streamlit shows an exception that leaves the script, with the call that *)
(* raised it.                                                               *)
Uncaught(origin) == [kind |-> "exception", msg |-> origin]

----------------------------------------------------------------------------
(* The store *)

(* What an earlier process of the same script may have left in the store. *)
OldForm == [destination |-> "Oslo", departure_date |-> "2024-01-02",
            return_date |-> "2024-01-05", activities |-> "skiing",
            accommodation |-> "Other"]

OldTrip == [id |-> 1, destination |-> "Oslo", departure_date |-> "2024-01-02",
            return_date |-> "2024-01-05", activities |-> "skiing",
            accommodation |-> "Other",
            plan_details |-> GenerateContent(PromptTemplate(FullRequest(OldForm)), FALSE, "A")]

OldFeedback == [id |-> 1, trip_id |-> 1, rating |-> 5, comments |-> "fine"]

IsCommitted(e) == e.xact = "committed"

RECURSIVE TripsOf(_)
TripsOf(h) == IF h = <<>> THEN <<>> ELSE <<Head(h).trip>> \o TripsOf(Tail(h))

Visible == TripsOf(SelectSeq(heap, IsCommitted))

Range(q) == {q[i] : i \in 1..Len(q)}

Ids(q) == {q[i].id : i \in 1..Len(q)}

(* A slip in the parameter tuple of the INSERT: the two dates swapped. *)
TripRowMut(id, f, plan) ==
    [id |-> id, destination |-> f.destination, departure_date |-> f.return_date,
     return_date |-> f.departure_date, activities |-> f.activities,
     accommodation |-> f.accommodation, plan_details |-> plan]

TripRow(id, f, plan) ==
    [id |-> id, destination |-> f.destination, departure_date |-> f.departure_date,
     return_date |-> f.return_date, activities |-> f.activities,
     accommodation |-> f.accommodation, plan_details |-> plan]

InsertInto(h, t, s) == Append(h, [trip |-> t, xact |-> s])

(* A commit that rewrites the relation with the transaction's rows only. *)
CommitXactMut(h, s) ==
    LET Mine(e) == e.xact = s
    IN [i \in 1..Len(SelectSeq(h, Mine)) |->
            [SelectSeq(h, Mine)[i] EXCEPT !.xact = "committed"]]

CommitXact(h, s) ==
    [i \in 1..Len(h) |-> IF h[i].xact = s THEN [h[i] EXCEPT !.xact = "committed"]
                                          ELSE h[i]]

(* No rollback on the error path: the transaction's rows are kept. *)
RollbackXactMut(h, s) == CommitXact(h, s)

RollbackXact(h, s) ==
    LET Others(e) == e.xact # s
    IN SelectSeq(h, Others)

CreateIfNotExists(sch, rels) == {r \in rels : r \notin sch}

(* CREATE TABLE after DROP TABLE: the relations are recreated empty. *)
ApplySchemaMut(st, created) ==
    [schema |-> st.schema \cup created, heap |-> <<>>, feedback |-> <<>>]

ApplySchema(st, created) ==
    [schema |-> st.schema \cup created, heap |-> st.heap, feedback |-> st.feedback]

OpenCount ==
    garbage + Cardinality({s \in Sessions : fnConn[s] = "open"})
            + Cardinality({s \in Sessions : scriptConn[s] = "open"})

----------------------------------------------------------------------------
(* The session chat log *)

InitHistory(h) == IF h = Absent THEN <<>> ELSE h

ChatLog(s) == InitHistory(chat_history[s])

(* insert(0, ...) in place of append(...). *)
AppendTurnMut(log, q, r) == <<[user |-> q, assistant |-> r]>> \o log

AppendTurn(log, q, r) == Append(log, [user |-> q, assistant |-> r])

----------------------------------------------------------------------------

(* The store is external and outlives the process: it is either fresh or  *)
(* holds what an earlier process and its administrators left in it.         *)
Init ==
    /\ pc = [s \in Sessions |-> "idle"]
    /\ trigger = [s \in Sessions |-> None]
    /\ showTrips = [s \in Sessions |-> FALSE]
    /\ form = [s \in Sessions |-> NoForm]
    /\ user_query = [s \in Sessions |-> ""]
    /\ reply = [s \in Sessions |-> NoReply]
    /\ chat_history = [s \in Sessions |-> Absent]
    /\ ui = [s \in Sessions |-> {}]
    /\ listed = [s \in Sessions |-> <<>>]
    /\ fnConn = [s \in Sessions |-> None]
    /\ scriptConn = [s \in Sessions |-> None]
    /\ garbage = 0
    /\ runs = 0
    /\ answered = [s \in Sessions |-> 0]
    /\ \/ /\ schema = {}
          /\ heap = <<>>
          /\ feedback = <<>>
          /\ nextId = 1
          /\ assigned = {}
          /\ commitOrder = <<>>
       \/ /\ schema = Relations
          /\ heap = <<[trip |-> OldTrip, xact |-> "committed"]>>
          /\ feedback = <<OldFeedback>>
          /\ nextId = 2
          /\ assigned = {1}
          /\ commitOrder = <<OldTrip>>


----------------------------------------------------------------------------
(* A script run starts: the widgets are read (lines 95-99, 130).  The form  *)
(* is read only by the submit handler and the query only by the Ask         *)
(* handler, so the run records them only when that handler will run.        *)

StartRun(s) ==
    /\ pc[s] = "idle"
    /\ runs < MaxRuns
    /\ \E trig \in {None, "submit", "ask"}, chk \in BOOLEAN, f \in Forms, q \in Queries :
          /\ trigger' = [trigger EXCEPT ![s] = trig]
          /\ showTrips' = [showTrips EXCEPT ![s] = chk]
          /\ form' = [form EXCEPT ![s] = IF trig = "submit" THEN f ELSE NoForm]
          /\ user_query' = [user_query EXCEPT ![s] = IF trig = "ask" THEN q ELSE ""]
    /\ runs' = runs + 1
    /\ pc' = [pc EXCEPT ![s] = "ct_connect"]
    /\ ui' = [ui EXCEPT ![s] = {}]
    /\ listed' = [listed EXCEPT ![s] = <<>>]
    /\ UNCHANGED <<reply, chat_history, fnConn, scriptConn, garbage>>
    /\ UNCHANGED storeVars
    /\ UNCHANGED answered

(* The script run ends: its namespace, and with it the module-level `conn`, *)
(* is no longer referenced; nothing has closed that connection.             *)
Leave(s) ==
    /\ pc' = [pc EXCEPT ![s] = "idle"]
    /\ trigger' = [trigger EXCEPT ![s] = None]
    /\ showTrips' = [showTrips EXCEPT ![s] = FALSE]
    /\ form' = [form EXCEPT ![s] = NoForm]
    /\ user_query' = [user_query EXCEPT ![s] = ""]
    /\ reply' = [reply EXCEPT ![s] = NoReply]
    /\ scriptConn' = [scriptConn EXCEPT ![s] = None]
    /\ garbage' = IF scriptConn[s] = "open" THEN garbage + 1 ELSE garbage

(* An exception leaves the script: the run stops where it is and Streamlit  *)
(* shows the exception; the function's local `conn` is dropped and closed.  *)
Raise(s, shown, origin) ==
    /\ Leave(s)
    /\ ui' = [ui EXCEPT ![s] = @ \cup shown \cup {Uncaught(origin)}]
    /\ fnConn' = [fnConn EXCEPT ![s] = None]

(* The finalizer of a connection nobody references closes it. *)
Finalize ==
    /\ garbage > 0
    /\ garbage' = garbage - 1
    /\ UNCHANGED <<pc, ui, listed, chat_history, fnConn, scriptConn, runs>>
    /\ UNCHANGED sessVars
    /\ UNCHANGED storeVars
    /\ UNCHANGED answered

----------------------------------------------------------------------------
(* create_tables(), line 72 *)

CtConnectOk(s) ==
    /\ pc[s] = "ct_connect"
    /\ fnConn' = [fnConn EXCEPT ![s] = "open"]
    /\ pc' = [pc EXCEPT ![s] = "ct_exec"]
    /\ UNCHANGED <<ui, listed, chat_history, scriptConn, garbage, runs>>
    /\ UNCHANGED sessVars
    /\ UNCHANGED storeVars
    /\ UNCHANGED answered

CtConnectFail(s) ==
    /\ pc[s] = "ct_connect"
    /\ Raise(s, {ConnError}, "connect_db")
    /\ UNCHANGED <<listed, chat_history, runs>>
    /\ UNCHANGED storeVars
    /\ UNCHANGED answered

AfterInit(s) ==
    IF trigger[s] = "submit" THEN "gen"
    ELSE IF showTrips[s] THEN "ls_connect" ELSE "chat"

(* Both CREATE TABLE IF NOT EXISTS statements and the commit: one           *)
(* transaction, which the store applies as a whole or not at all.           *)
CtCommitOk(s) ==
    /\ pc[s] = "ct_exec"
    /\ LET st == ApplySchema([schema |-> schema, heap |-> heap, feedback |-> feedback],
                             CreateIfNotExists(schema, Relations))
       IN /\ schema' = st.schema
          /\ heap' = st.heap
          /\ feedback' = st.feedback
    /\ fnConn' = [fnConn EXCEPT ![s] = None]
    /\ pc' = [pc EXCEPT ![s] = AfterInit(s)]
    /\ UNCHANGED <<ui, listed, chat_history, scriptConn, garbage, runs,
                   nextId, assigned, commitOrder>>
    /\ UNCHANGED sessVars
    /\ UNCHANGED answered

CtCommitFail(s) ==
    /\ pc[s] = "ct_exec"
    /\ Raise(s, {}, "create_tables")
    /\ UNCHANGED <<listed, chat_history, runs>>
    /\ UNCHANGED storeVars
    /\ UNCHANGED answered

----------------------------------------------------------------------------
(* The "Give me a plan!" handler, lines 101-107 *)

GenOk(s) ==
    /\ pc[s] = "gen"
    /\ \E v \in Variants :
          reply' = [reply EXCEPT ![s] =
                       GenerateContent(PromptTemplate(FullRequest(form[s])), FALSE, v)]
    /\ ui' = [ui EXCEPT ![s] = @ \cup {Written}]
    /\ pc' = [pc EXCEPT ![s] = "ins_connect"]
    /\ UNCHANGED <<trigger, showTrips, form, user_query, listed, chat_history,
                   fnConn, scriptConn, garbage, runs>>
    /\ UNCHANGED storeVars
    /\ UNCHANGED answered

(* The generation error swallowed: the handler goes on with an empty reply. *)
GenFailMut(s) ==
    /\ pc[s] = "gen"
    /\ reply' = [reply EXCEPT ![s] = NoReply]
    /\ pc' = [pc EXCEPT ![s] = "ins_connect"]
    /\ UNCHANGED <<trigger, showTrips, form, user_query, ui, listed, chat_history,
                   fnConn, scriptConn, garbage, runs>>
    /\ UNCHANGED storeVars
    /\ UNCHANGED answered

GenFail(s) ==
    /\ pc[s] = "gen"
    /\ Raise(s, {}, "generate_content(prompt)")
    /\ UNCHANGED <<listed, chat_history, runs>>
    /\ UNCHANGED storeVars
    /\ UNCHANGED answered

InsConnectOk(s) ==
    /\ pc[s] = "ins_connect"
    /\ fnConn' = [fnConn EXCEPT ![s] = "open"]
    /\ pc' = [pc EXCEPT ![s] = "ins_exec"]
    /\ UNCHANGED <<ui, listed, chat_history, scriptConn, garbage, runs>>
    /\ UNCHANGED sessVars
    /\ UNCHANGED storeVars
    /\ UNCHANGED answered

InsConnectFail(s) ==
    /\ pc[s] = "ins_connect"
    /\ Raise(s, {ConnError}, "connect_db")
    /\ UNCHANGED <<listed, chat_history, runs>>
    /\ UNCHANGED storeVars
    /\ UNCHANGED answered

InsExecOk(s) ==
    /\ pc[s] = "ins_exec"
    /\ "trips" \in schema
    /\ heap' = InsertInto(heap, TripRow(nextId, form[s], reply[s]), s)
    /\ nextId' = nextId + 1
    /\ assigned' = assigned \cup {nextId}
    /\ pc' = [pc EXCEPT ![s] = "ins_commit"]
    /\ UNCHANGED <<ui, listed, chat_history, fnConn, scriptConn, garbage, runs,
                   schema, feedback, commitOrder>>
    /\ UNCHANGED sessVars
    /\ UNCHANGED answered

InsExecFail(s) ==
    /\ pc[s] = "ins_exec"
    /\ Raise(s, {}, "insert_trip")
    /\ UNCHANGED <<listed, chat_history, runs>>
    /\ UNCHANGED storeVars
    /\ UNCHANGED answered

InsCommitOk(s) ==
    /\ pc[s] = "ins_commit"
    /\ heap' = CommitXact(heap, s)
    /\ commitOrder' = commitOrder \o TripsOf(SelectSeq(heap, LAMBDA e : e.xact = s))
    /\ fnConn' = [fnConn EXCEPT ![s] = None]
    /\ ui' = [ui EXCEPT ![s] = @ \cup {Saved}]
    /\ pc' = [pc EXCEPT ![s] = IF showTrips[s] THEN "ls_connect" ELSE "chat"]
    /\ UNCHANGED <<listed, chat_history, scriptConn, garbage, runs, schema,
                   feedback, nextId, assigned>>
    /\ UNCHANGED sessVars
    /\ UNCHANGED answered

(* conn.commit() raises: the store did not commit, and the exit of the     *)
(* `with` block rolls the transaction back.  The id drawn stays drawn.      *)
InsCommitFail(s) ==
    /\ pc[s] = "ins_commit"
    /\ heap' = RollbackXact(heap, s)
    /\ Raise(s, {}, "insert_trip")
    /\ UNCHANGED <<listed, chat_history, runs, schema, feedback, nextId,
                   assigned, commitOrder>>
    /\ UNCHANGED answered

----------------------------------------------------------------------------
(* The "Show Saved Trips" block, lines 110-123 *)

LsConnectOk(s) ==
    /\ pc[s] = "ls_connect"
    /\ scriptConn' = [scriptConn EXCEPT ![s] = "open"]
    /\ pc' = [pc EXCEPT ![s] = "ls_select"]
    /\ UNCHANGED <<ui, listed, chat_history, fnConn, garbage, runs>>
    /\ UNCHANGED sessVars
    /\ UNCHANGED storeVars
    /\ UNCHANGED answered

LsConnectFail(s) ==
    /\ pc[s] = "ls_connect"
    /\ Raise(s, {ConnError}, "connect_db")
    /\ UNCHANGED <<listed, chat_history, runs>>
    /\ UNCHANGED storeVars
    /\ UNCHANGED answered

LsSelectOk(s) ==
    /\ pc[s] = "ls_select"
    /\ "trips" \in schema
    /\ listed' = [listed EXCEPT ![s] = Visible]
    /\ ui' = [ui EXCEPT ![s] = IF Visible # <<>> THEN @ ELSE @ \cup {NoTrips}]
    /\ pc' = [pc EXCEPT ![s] = "chat"]
    /\ UNCHANGED <<chat_history, fnConn, scriptConn, garbage, runs>>
    /\ UNCHANGED sessVars
    /\ UNCHANGED storeVars
    /\ UNCHANGED answered

LsSelectFail(s) ==
    /\ pc[s] = "ls_select"
    /\ Raise(s, {}, "cur.execute")
    /\ UNCHANGED <<listed, chat_history, runs>>
    /\ UNCHANGED storeVars
    /\ UNCHANGED answered

----------------------------------------------------------------------------
(* The sidebar chat, lines 126-141.  Rendering the history (lines 139-141)  *)
(* reads chat_history and changes nothing.                                  *)

(* Ask was not clicked, or the query is empty. *)
AskSkip(s) ==
    /\ pc[s] = "chat"
    /\ ~(trigger[s] = "ask" /\ user_query[s] # "")
    /\ chat_history' = [chat_history EXCEPT ![s] = InitHistory(@)]
    /\ Leave(s)
    /\ UNCHANGED <<ui, listed, fnConn, runs>>
    /\ UNCHANGED storeVars
    /\ UNCHANGED answered

(* The `if user_query:` test left out. *)
AskCallMut(s) ==
    /\ pc[s] = "chat"
    /\ trigger[s] = "ask"
    /\ chat_history' = [chat_history EXCEPT ![s] = InitHistory(@)]
    /\ pc' = [pc EXCEPT ![s] = "ask_gen"]
    /\ UNCHANGED <<ui, listed, fnConn, scriptConn, garbage, runs>>
    /\ UNCHANGED sessVars
    /\ UNCHANGED storeVars
    /\ UNCHANGED answered

AskCall(s) ==
    /\ pc[s] = "chat"
    /\ trigger[s] = "ask" /\ user_query[s] # ""
    /\ chat_history' = [chat_history EXCEPT ![s] = InitHistory(@)]
    /\ pc' = [pc EXCEPT ![s] = "ask_gen"]
    /\ UNCHANGED <<ui, listed, fnConn, scriptConn, garbage, runs>>
    /\ UNCHANGED sessVars
    /\ UNCHANGED storeVars
    /\ UNCHANGED answered

AskGenOk(s) ==
    /\ pc[s] = "ask_gen"
    /\ \E v \in Variants :
          chat_history' = [chat_history EXCEPT ![s] =
              AppendTurn(@, user_query[s], GenerateContent(user_query[s], TRUE, v))]
    /\ Leave(s)
    /\ UNCHANGED <<ui, listed, fnConn, runs>>
    /\ UNCHANGED storeVars
    /\ answered' = [answered EXCEPT ![s] = @ + 1]

AskGenFail(s) ==
    /\ pc[s] = "ask_gen"
    /\ Raise(s, {}, "generate_content(user_query)")
    /\ UNCHANGED <<listed, chat_history, runs>>
    /\ UNCHANGED storeVars
    /\ UNCHANGED answered

----------------------------------------------------------------------------

Next ==
    \/ Finalize
    \/ \E s \in Sessions :
          \/ StartRun(s)
          \/ CtConnectOk(s) \/ CtConnectFail(s)
          \/ CtCommitOk(s) \/ CtCommitFail(s)
          \/ GenOk(s) \/ GenFail(s)
          \/ InsConnectOk(s) \/ InsConnectFail(s)
          \/ InsExecOk(s) \/ InsExecFail(s)
          \/ InsCommitOk(s) \/ InsCommitFail(s)
          \/ LsConnectOk(s) \/ LsConnectFail(s)
          \/ LsSelectOk(s) \/ LsSelectFail(s)
          \/ AskSkip(s) \/ AskCall(s)
          \/ AskGenOk(s) \/ AskGenFail(s)

Spec == Init /\ [][Next]_vars

----------------------------------------------------------------------------
(* Vocabulary of the properties *)

Raised(s) == \E e \in ui[s] : e.kind = "exception"

RaisedBy(s, origin) == Uncaught(origin) \in ui[s]

HasInputs(t, f, plan) ==
    /\ t.destination = f.destination
    /\ t.departure_date = f.departure_date
    /\ t.return_date = f.return_date
    /\ t.activities = f.activities
    /\ t.accommodation = f.accommodation
    /\ t.plan_details = plan

InsertExecuted(s) == pc[s] = "ins_exec" /\ pc'[s] = "ins_commit"

InsertCommitted(s) == pc[s] = "ins_commit" /\ pc'[s] \in {"ls_connect", "chat"}

InsertFailed(s) ==
    pc[s] \in {"ins_connect", "ins_exec", "ins_commit"} /\ pc'[s] = "idle"

InInsert(s) == pc[s] \in {"ins_connect", "ins_exec", "ins_commit"}

Position(q, x) == CHOOSE i \in 1..Len(q) : q[i] = x

----------------------------------------------------------------------------
(* C1: a successful insert_trip adds to the rows the listing shows exactly   *)
(* one trip, which carries the six inputs and an id that no existing row    *)
(* has and that exceeds every id the store assigned before; a listing that  *)
(* follows in the same run shows that trip, under pairwise distinct ids.    *)

C1_Executes(s) ==
    InsertExecuted(s) =>
        \E e \in Range(heap') :
            /\ e.xact = s
            /\ e.trip.id \notin assigned
            /\ \A i \in assigned : e.trip.id > i
            /\ e.trip.id \notin Ids(TripsOf(heap))

C1_Commits(s) ==
    InsertCommitted(s) =>
        \E t \in Range(Visible') :
            /\ t \notin Range(Visible)
            /\ Range(Visible') = Range(Visible) \cup {t}
            /\ Len(Visible') = Len(Visible) + 1
            /\ t.id \notin Ids(Visible)
            /\ t.id \in assigned
            /\ HasInputs(t, form[s], reply[s])

C1_Listed(s) ==
    (pc[s] = "chat" /\ Saved \in ui[s] /\ scriptConn[s] = "open") =>
        /\ \E t \in Range(listed[s]) : HasInputs(t, form[s], reply[s])
        /\ Cardinality(Ids(listed[s])) = Len(listed[s])

(* C1: a committed insert adds exactly one trip with the inputs and a      *)
(* fresh, greater id, and the listing that follows shows it.                *)
C1_InsertThenList ==
    /\ [](\A s \in Sessions : C1_Listed(s))
    /\ [][\A s \in Sessions : C1_Executes(s) /\ C1_Commits(s)]_vars

C1_Witness ==
    \E s \in Sessions :
        /\ pc[s] = "chat" /\ Saved \in ui[s] /\ scriptConn[s] = "open"
        /\ Len(listed[s]) >= 2

(* C2: an insert_trip that fails (no connection, the INSERT fails, the      *)
(* commit fails) leaves the visible trips as they were and none of its own  *)
(* rows behind, and the exception leaves the script: the run stops without  *)
(* "Trip saved successfully!".  Rows not yet committed are never visible.   *)

C2_Fails(s) ==
    InsertFailed(s) =>
        /\ Visible' = Visible
        /\ \A e \in Range(heap') : e.xact # s
        /\ \E e \in ui'[s] : e.kind = "exception"
        /\ Saved \notin ui'[s]

C2_NoPartial ==
    \A e \in Range(heap) :
        /\ e.xact # "committed" => pc[e.xact] = "ins_commit"
        /\ e.xact # "committed" => e.trip \notin Range(Visible)

(* C2: a failed insert_trip changes no visible row, leaves no row of its   *)
(* own, and raises.                                                         *)
C2_InsertAtomic ==
    /\ []C2_NoPartial
    /\ [][\A s \in Sessions : C2_Fails(s)]_vars

C2_Witness ==
    \E s \in Sessions :
        /\ pc[s] = "idle" /\ RaisedBy(s, "insert_trip")
        /\ \E i \in assigned : i \notin Ids(TripsOf(heap))

(* C3: when the plan generation fails, the run stops: nothing is inserted   *)
(* and nothing is reported saved.  insert_trip is entered only with the     *)
(* reply generated for this form, and the row it writes carries that reply. *)

PlanReplies(f) ==
    {[prompt |-> PromptTemplate(FullRequest(f)), text |-> v] : v \in Variants}

C3_Generation(s) ==
    (pc[s] = "gen" /\ pc'[s] # "gen") =>
        \/ /\ pc'[s] = "idle"
           /\ heap' = heap
           /\ Saved \notin ui'[s]
           /\ \E e \in ui'[s] : e.kind = "exception"
        \/ /\ pc'[s] = "ins_connect"
           /\ reply'[s] \in PlanReplies(form[s])

C3_Persisted ==
    \A s \in Sessions :
        /\ InInsert(s) => reply[s] \in PlanReplies(form[s])
        /\ \A e \in Range(heap) : e.xact = s => e.trip.plan_details = reply[s]
        /\ Saved \in ui[s] => Written \in ui[s]

(* C3: a failed plan generation stops the run before insert_trip; a saved  *)
(* trip carries the generated reply.                                        *)
C3_NoPlanNoTrip ==
    /\ []C3_Persisted
    /\ [][\A s \in Sessions : C3_Generation(s)]_vars

C3_Witness ==
    \E s \in Sessions :
        /\ pc[s] = "idle" /\ RaisedBy(s, "generate_content(prompt)")
        /\ \E t \in Sessions : Saved \in ui[t]

(* C4: a session's chat log starts empty, holds as many turns as chat       *)
(* requests of the session have completed, and changes only by gaining, at  *)
(* its end, the turn of the request that completes: the query paired with   *)
(* the response generated for that query.                                   *)

C4_Appends(s) ==
    \/ ChatLog(s)' = ChatLog(s)
    \/ /\ pc[s] = "ask_gen"
       /\ \E v \in Variants :
             ChatLog(s)' = Append(ChatLog(s),
                                  [user |-> user_query[s],
                                   assistant |-> [prompt |-> ChatPrompt(user_query[s]),
                                                  text |-> v]])

C4_Counts == \A s \in Sessions : Len(ChatLog(s)) = answered[s]

(* C4: the chat log starts empty, counts the completed requests, and only  *)
(* grows at its end by the completing request's turn.                       *)
C4_ChatLogOrdered ==
    /\ \A s \in Sessions : ChatLog(s) = <<>>
    /\ []C4_Counts
    /\ [][\A s \in Sessions : C4_Appends(s)]_vars

C4_Witness ==
    \E s \in Sessions :
        /\ Len(ChatLog(s)) = 2
        /\ ChatLog(s)[1].user # ChatLog(s)[2].user

(* C5: every create_tables that completes leaves both relations in the      *)
(* schema, leaves a schema that already held them as it was, and changes no *)
(* trip row (committed or in flight) and no feedback row; a create_tables   *)
(* that fails changes nothing either.                                       *)

C5_Step(s) ==
    (pc[s] = "ct_exec" /\ pc'[s] # "ct_exec") =>
        /\ heap' = heap
        /\ feedback' = feedback
        /\ pc'[s] # "idle" => schema' = Relations
        /\ pc'[s] = "idle" => schema' = schema
        /\ schema = Relations => schema' = schema

(* C5: create_tables, run again, changes neither schema nor rows.           *)
C5_EnsureSchemaIdempotent == [][\A s \in Sessions : C5_Step(s)]_vars

C5_Witness ==
    \E s \in Sessions :
        /\ pc[s] \in {"gen", "ls_connect", "chat"}
        /\ runs >= 2
        /\ Len(heap) >= 2
        /\ feedback # <<>>

(* C6: no step removes or alters a visible trip; the visible trips change   *)
(* only when an insert commits, and then by exactly one row.                *)

C6_Step ==
    /\ Range(Visible) \subseteq Range(Visible')
    /\ \A i, j \in 1..Len(Visible) :
          i < j => Position(Visible', Visible[i]) < Position(Visible', Visible[j])
    /\ \/ Visible' = Visible
       \/ /\ \E s \in Sessions : InsertCommitted(s)
          /\ Len(Visible') = Len(Visible) + 1

C6_Commit == \A s \in Sessions : InsertCommitted(s) => Len(Visible') = Len(Visible) + 1

(* C6: visible trips are never removed, altered or reordered, and grow by  *)
(* one row per committed insert.                                            *)
C6_TripsAppendOnly == [][C6_Step /\ C6_Commit]_vars

C6_Witness ==
    /\ Len(Visible) >= 2
    /\ OldTrip \in Range(Visible)
    /\ \E s \in Sessions : pc[s] = "chat" /\ listed[s] = Visible

(* C7: outside a store operation a session holds no open connection, and    *)
(* when every session is idle no connection is open.                        *)

InStoreOperation(s) == pc[s] \in {"ct_exec", "ins_exec", "ins_commit", "ls_select"}

C7_ConnectionsReleased ==
    /\ \A s \in Sessions :
          ~InStoreOperation(s) => (fnConn[s] = None /\ scriptConn[s] = None)
    /\ (\A s \in Sessions : pc[s] = "idle") => OpenCount = 0

(* C8: the empty listing is rendered by an element of another kind than the *)
(* error element that reports a store failure.                              *)

C8_EmptyIsNotAnError ==
    \A s \in Sessions :
        (pc[s] = "chat" /\ scriptConn[s] = "open" /\ listed[s] = <<>>) =>
            /\ ~Raised(s)
            /\ \A e \in ui[s] : e.kind # ConnError.kind

(* C9: the listing shows committed trips only, in the order their inserts   *)
(* committed.                                                               *)

C9_ListedInCommitOrder ==
    \A s \in Sessions :
        /\ Range(listed[s]) \subseteq Range(commitOrder)
        /\ \A i, j \in 1..Len(listed[s]) :
              i < j => Position(commitOrder, listed[s][i])
                           < Position(commitOrder, listed[s][j])

(* C10: the steps of the sidebar chat of a session change no relation of    *)
(* the store and no other session's log; they change the session's own log  *)
(* only when a generation call returns, which is never made for an empty    *)
(* query; the steps of the submit handler change no chat log.               *)

C10_Ask(s) ==
    (pc[s] \in {"chat", "ask_gen"} /\ pc'[s] # pc[s]) =>
        /\ heap' = heap /\ feedback' = feedback /\ schema' = schema
        /\ nextId' = nextId
        /\ \A t \in Sessions \ {s} : chat_history'[t] = chat_history[t]
        /\ pc[s] = "chat" => ChatLog(s)' = ChatLog(s)
        /\ (\E e \in ui'[s] : e.kind = "exception") => ChatLog(s)' = ChatLog(s)

C10_Submit(s) ==
    (pc[s] \in {"gen", "ins_connect", "ins_exec", "ins_commit"} /\ pc'[s] # pc[s]) =>
        chat_history' = chat_history

C10_NoEmptyCall ==
    \A s \in Sessions : pc[s] = "ask_gen" => (trigger[s] = "ask" /\ user_query[s] # "")

(* C10: the chat steps touch only the asking session's log, and only when  *)
(* a generation call made for a non-empty query returns; submit touches no  *)
(* log.                                                                     *)
C10_AskFrame ==
    /\ []C10_NoEmptyCall
    /\ [][\A s \in Sessions : C10_Ask(s) /\ C10_Submit(s)]_vars

C10_Witness ==
    \E s, t \in Sessions :
        /\ s # t
        /\ pc[s] = "chat" /\ trigger[s] = "ask" /\ user_query[s] = ""
        /\ Len(ChatLog(t)) >= 1
        /\ Visible # <<>>

============================================================================
